---- MODULE Spec2Model ----
(***************************************************************************)
(* State-machine model of the VitalSignsMonitor class of src/script.js:    *)
(* the alarm evaluation / silence logic, the NIBP measurement cycle and    *)
(* the one-shot timers (setTimeout) both of them schedule, and the three   *)
(* callbacks that reschedule themselves: the ECG and the plethysmograph    *)
(* animation and the heartbeat check.                                      *)
(*                                                                         *)
(* Time is a countdown on every pending timer.  A timer runs its callback  *)
(* when its countdown is 0, and time does not advance past a pending       *)
(* timer, so a callback runs exactly `delay` ms after it was scheduled.    *)
(* User commands may arrive at any instant, also at an instant at which a  *)
(* callback is due.                                                        *)
(*                                                                         *)
(* temperature is held in tenths of a degree (36.5 is 365); the other      *)
(* vitals are the integers parseInt produces.                              *)
(***************************************************************************)
EXTENDS Integers, Sequences, FiniteSets, TLC

VARIABLES
    vitals,           \* this.vitals
    alarmEnabled,     \* this.alarmEnabled
    audioEnabled,     \* this.audioEnabled
    audioContext,     \* TRUE iff this.audioContext is non-null
    alarmActive,      \* this.alarmActive
    alarmSilenced,    \* this.alarmSilenced
    alarmMessage,     \* textContent of #alarm-message
    overlays,         \* overlay id -> has class 'alarm'
    alarmSound,       \* TRUE iff the last step called createAlarmSound()
    nibpMeasuring,    \* this.nibpMeasuring
    nibpInterval,     \* this.nibpInterval (minutes)
    nibpTimer,        \* this.nibpTimer: "null", "live" (id of a pending timer), "fired"
    nibpStatus,       \* textContent of #nibp-status
    startBtnDisabled, \* #start-nibp-btn disabled
    stopBtnDisabled,  \* #stop-nibp-btn disabled
    timers,           \* pending setTimeout callbacks, in scheduling order
    lastOp,           \* the handler or callback that ran last
    updates,          \* number of updateVital calls so far
    clicks,           \* number of clicks on the NIBP start and stop buttons so far
    sinceSilence,     \* time since the last silenceAlarm() not followed by resetAlarms()
    sinceStart,       \* time since startNIBP() in the idle state, no NIBP command since
    isFrozen,         \* this.isFrozen
    currentRhythm,    \* this.currentRhythm
    arrhythmiaOverlay, \* #arrhythmia-overlay has class 'alarm'
    now,              \* Date.now() (ms)
    loops,            \* pending callbacks of the self-rescheduling loops
    ecgTime,          \* Date.now() as the last animateECG() read it
    plethTime,        \* Date.now() as the last animatePleth() read it
    lastHeartbeatTime, \* this.lastHeartbeatTime
    interval,         \* `interval` of the last heartbeat check if no cue came of it
    heartbeatSound,   \* TRUE iff the last step called createHeartbeatSound()
    stElevation,      \* this.stElevation, in hundredths of a mm
    stOverlay,        \* #st-overlay has class 'alarm'
    qtInterval,       \* this.qtInterval (ms)
    artifacts,        \* this.artifacts
    sample            \* the ECG sample the last step computed, if it computed one

alarmVars == <<vitals, alarmEnabled, audioEnabled, audioContext, alarmActive,
               alarmSilenced, alarmMessage, overlays, updates>>
nibpVars == <<nibpMeasuring, nibpInterval, nibpTimer, nibpStatus,
              startBtnDisabled, stopBtnDisabled, clicks>>
loopVars == <<isFrozen, currentRhythm, arrhythmiaOverlay, now, loops, ecgTime,
              plethTime, lastHeartbeatTime, interval>>
ecgVars == <<stElevation, stOverlay, qtInterval, artifacts>>
vars == <<vitals, alarmEnabled, audioEnabled, audioContext, alarmActive,
          alarmSilenced, alarmMessage, overlays, alarmSound, nibpMeasuring,
          nibpInterval, nibpTimer, nibpStatus, startBtnDisabled, stopBtnDisabled,
          timers, lastOp, updates, clicks, sinceSilence, sinceStart,
          isFrozen, currentRhythm, arrhythmiaOverlay, now, loops, ecgTime,
          plethTime, lastHeartbeatTime, interval, heartbeatSound,
          stElevation, stOverlay, qtInterval, artifacts, sample>>

(***************************************************************************)
(* Bounds of the model.                                                    *)
(***************************************************************************)
MaxTimers == 2       \* pending timers at a time
MaxUpdates == 2      \* updateVital calls in a run
MaxClicks == 4       \* clicks on the NIBP start and stop buttons in a run
SilenceStep == 60000 \* granularity of time while a silence is observed (ms)
NibpStep == 1000     \* granularity of time while an NIBP cycle is observed (ms)
LoadTime == 100000   \* Date.now() when init() runs (ms)
HeartHorizon == 650  \* the heartbeat check is followed this long after init() (ms)
WaveHorizon == 120   \* the animation loops are followed this long after init() (ms)

(***************************************************************************)
(* Program constants.                                                      *)
(***************************************************************************)
SilenceDelay == 120000   \* silenceAlarm: auto-unsilence after 2 minutes
DeflateDelay == 3000     \* 'Measuring...' -> 'Deflating...'
CompleteDelay == 2000    \* 'Deflating...' -> 'Complete'
MsPerMinute == 60000     \* this.nibpInterval * 60000
InitialNibpInterval == 5 \* this.nibpInterval = 5
FrameDelay == 17         \* an animation frame, the 16.67 ms of animateECG
FrozenDelay == 100       \* setTimeout(() => this.animateECG(), 100)
PollDelay == 25          \* setTimeout(() => this.startHeartbeatAudio(), 25)

\* no ECG sample was computed
NoSample == [rhythm |-> "none"]

VitalOrder ==
    <<"heartRate", "spo2", "respiratoryRate", "systolicBP", "diastolicBP",
      "temperature">>

VitalNames == {VitalOrder[i] : i \in 1..Len(VitalOrder)}

InitialVitals ==
    [heartRate |-> 72, spo2 |-> 98, respiratoryRate |-> 16, systolicBP |-> 120,
     diastolicBP |-> 80, temperature |-> 365]

alarmLimits ==
    [heartRate |-> [low |-> 60, high |-> 100],
     spo2 |-> [low |-> 95, high |-> 100],
     respiratoryRate |-> [low |-> 12, high |-> 20],
     systolicBP |-> [low |-> 90, high |-> 140],
     diastolicBP |-> [low |-> 60, high |-> 90],
     temperature |-> [low |-> 360, high |-> 375]]

\* checkAlarms' vitalOverlays: systolicBP and diastolicBP share #bp-overlay
vitalOverlays ==
    [heartRate |-> "hr-overlay", spo2 |-> "spo2-overlay",
     respiratoryRate |-> "rr-overlay", systolicBP |-> "bp-overlay",
     diastolicBP |-> "bp-overlay", temperature |-> "temp-overlay"]

OverlayIds == {vitalOverlays[v] : v \in VitalNames}

TestAlarmMessage == "Test Alarm - All systems functioning"

(***************************************************************************)
(* Number to string, as a template literal does it: an integer prints      *)
(* without a fraction (36.0 prints "36"), 37.5 prints "37.5".              *)
(***************************************************************************)
TenthsToString(t) ==
    IF t % 10 = 0
    THEN ToString(t \div 10)
    ELSE ToString(t \div 10) \o "." \o ToString(t % 10)

NumberToString(vital, x) ==
    IF vital = "temperature" THEN TenthsToString(x) ELSE ToString(x)

\* Array.prototype.join
RECURSIVE Join(_, _)
Join(strs, sep) ==
    IF Len(strs) = 0 THEN ""
    ELSE IF Len(strs) = 1 THEN strs[1]
    ELSE strs[1] \o sep \o Join(Tail(strs), sep)

(***************************************************************************)
(* The alarm display a handler works on: alarmActive, the message text,    *)
(* the overlays' 'alarm' class, and whether createAlarmSound() was called. *)
(***************************************************************************)
Display ==
    [active |-> alarmActive, message |-> alarmMessage, overlays |-> overlays,
     sound |-> FALSE]

\* clearAlarms: every .vital-overlay element loses the class 'alarm'
clearAlarms(st) ==
    [st EXCEPT !.active = FALSE, !.overlays = [o \in OverlayIds |-> FALSE]]

\* triggerAlarm showing alarms[0] instead of alarms.join(', ')
triggerAlarmFirstOnly(st, alarms) ==
    [st EXCEPT !.active = TRUE,
               !.message = alarms[1],
               !.sound = audioEnabled /\ audioContext]

\* triggerAlarm testing this.audioEnabled alone at line 913
triggerAlarmNoContext(st, alarms) ==
    [st EXCEPT !.active = TRUE,
               !.message = Join(alarms, ", "),
               !.sound = audioEnabled]

triggerAlarm(st, alarms) ==
    [st EXCEPT !.active = TRUE,
               !.message = Join(alarms, ", "),
               !.sound = audioEnabled /\ audioContext]

\* line 889 with <= and >= for < and >
BreachInclusive(value, limits) == value <= limits.low \/ value >= limits.high

\* checkAlarms, line 889
Breach(value, limits) == value < limits.low \/ value > limits.high

\* checkAlarms, line 890
BreachMessage(vital, value, limits) ==
    vital \o ": " \o NumberToString(vital, value) \o " (Normal: "
          \o NumberToString(vital, limits.low) \o "-"
          \o NumberToString(vital, limits.high) \o ")"

\* checkAlarms' forEach over Object.keys(this.vitals), from the i-th key on
RECURSIVE CheckEach(_, _, _, _)
CheckEach(i, vs, alarms, ov) ==
    IF i > Len(VitalOrder) THEN [alarms |-> alarms, overlays |-> ov]
    ELSE LET vital == VitalOrder[i]
             value == vs[vital]
             limits == alarmLimits[vital]
             overlay == vitalOverlays[vital]
         IN  IF Breach(value, limits)
             THEN CheckEach(i + 1, vs,
                            Append(alarms, BreachMessage(vital, value, limits)),
                            [ov EXCEPT ![overlay] = TRUE])
             ELSE CheckEach(i + 1, vs, alarms, [ov EXCEPT ![overlay] = FALSE])

\* checkAlarms without the alarmSilenced test of line 871
checkAlarmsUnsilenced(vs, st) ==
    IF ~alarmEnabled THEN st
    ELSE LET r == CheckEach(1, vs, <<>>, st.overlays)
             shown == [st EXCEPT !.overlays = r.overlays]
         IN  IF Len(r.alarms) > 0 THEN triggerAlarm(shown, r.alarms)
             ELSE clearAlarms(shown)

checkAlarms(vs, st) ==
    IF ~alarmEnabled \/ alarmSilenced THEN st
    ELSE LET r == CheckEach(1, vs, <<>>, st.overlays)
             shown == [st EXCEPT !.overlays = r.overlays]
         IN  IF Len(r.alarms) > 0 THEN triggerAlarm(shown, r.alarms)
             ELSE clearAlarms(shown)

Show(st) ==
    /\ alarmActive' = st.active
    /\ alarmMessage' = st.message
    /\ overlays' = st.overlays
    /\ alarmSound' = st.sound

(***************************************************************************)
(* Timers.  A pending setTimeout is [kind, left, tracked]: the callback,   *)
(* the time left, and whether this.nibpTimer holds its id.                 *)
(***************************************************************************)
Timer(k, ms, t) == [kind |-> k, left |-> ms, tracked |-> t]

RemoveAt(q, i) == SubSeq(q, 1, i - 1) \o SubSeq(q, i + 1, Len(q))

\* the timer that runs next: the first scheduled among those due
Due(i) ==
    /\ i \in 1..Len(timers)
    /\ timers[i].left = 0
    /\ \A j \in 1..(i - 1) : timers[j].left # 0

Pending(k) == {i \in 1..Len(timers) : timers[i].kind = k}

\* a running clock d ms later; it stays at cap once it has reached it
Elapse(clock, d, cap) ==
    IF ~clock.on THEN clock
    ELSE IF clock.ms + d <= cap THEN [clock EXCEPT !.ms = clock.ms + d]
    ELSE [clock EXCEPT !.ms = cap]

Off == [on |-> FALSE, ms |-> 0]

(***************************************************************************)
(* Alarm handlers.                                                         *)
(***************************************************************************)
updateVital(vitalName, value) ==
    /\ updates < MaxUpdates
    /\ updates' = updates + 1
    /\ vitals' = [vitals EXCEPT ![vitalName] = value]
    /\ Show(checkAlarms(vitals', Display))
    /\ lastOp' = "updateVital"
    /\ sample' = NoSample
    /\ UNCHANGED ecgVars
    /\ heartbeatSound' = FALSE
    /\ UNCHANGED loopVars
    /\ UNCHANGED <<alarmEnabled, audioEnabled, audioContext, alarmSilenced,
                   timers, sinceSilence, sinceStart>>
    /\ UNCHANGED nibpVars

\* the alarm switch without the clearAlarms() of line 227
setAlarmEnabledKeepsDisplay(checked) ==
    /\ alarmEnabled' = checked
    /\ Show(Display)
    /\ lastOp' = "setAlarmEnabled"
    /\ sample' = NoSample
    /\ UNCHANGED ecgVars
    /\ heartbeatSound' = FALSE
    /\ UNCHANGED loopVars
    /\ UNCHANGED <<vitals, audioEnabled, audioContext, alarmSilenced, updates,
                   timers, sinceSilence, sinceStart>>
    /\ UNCHANGED nibpVars

\* 'change' on #alarm-enabled
setAlarmEnabled(checked) ==
    /\ alarmEnabled' = checked
    /\ IF ~checked THEN Show(clearAlarms(Display)) ELSE Show(Display)
    /\ lastOp' = "setAlarmEnabled"
    /\ sample' = NoSample
    /\ UNCHANGED ecgVars
    /\ heartbeatSound' = FALSE
    /\ UNCHANGED loopVars
    /\ UNCHANGED <<vitals, audioEnabled, audioContext, alarmSilenced, updates,
                   timers, sinceSilence, sinceStart>>
    /\ UNCHANGED nibpVars

\* 'change' on #audio-enabled
setAudioEnabled(checked) ==
    /\ audioEnabled' = checked
    /\ Show(Display)
    /\ lastOp' = "setAudioEnabled"
    /\ sample' = NoSample
    /\ UNCHANGED ecgVars
    /\ heartbeatSound' = FALSE
    /\ UNCHANGED loopVars
    /\ UNCHANGED <<vitals, alarmEnabled, audioContext, alarmSilenced, updates,
                   timers, sinceSilence, sinceStart>>
    /\ UNCHANGED nibpVars

\* testAlarm going through the tests of checkAlarms before it triggers
testAlarmGuarded ==
    /\ IF alarmEnabled /\ ~alarmSilenced
       THEN Show(triggerAlarm(Display, <<TestAlarmMessage>>))
       ELSE Show(Display)
    /\ lastOp' = "testAlarm"
    /\ sample' = NoSample
    /\ UNCHANGED ecgVars
    /\ heartbeatSound' = FALSE
    /\ UNCHANGED loopVars
    /\ UNCHANGED <<vitals, alarmEnabled, audioEnabled, audioContext,
                   alarmSilenced, updates, timers, sinceSilence, sinceStart>>
    /\ UNCHANGED nibpVars

testAlarm ==
    /\ Show(triggerAlarm(Display, <<TestAlarmMessage>>))
    /\ lastOp' = "testAlarm"
    /\ sample' = NoSample
    /\ UNCHANGED ecgVars
    /\ heartbeatSound' = FALSE
    /\ UNCHANGED loopVars
    /\ UNCHANGED <<vitals, alarmEnabled, audioEnabled, audioContext,
                   alarmSilenced, updates, timers, sinceSilence, sinceStart>>
    /\ UNCHANGED nibpVars

\* silenceAlarm without the clearAlarms() of line 933
silenceAlarmKeepsDisplay ==
    /\ Len(timers) < MaxTimers
    /\ alarmSilenced' = TRUE
    /\ Show(Display)
    /\ timers' = Append(timers, Timer("silence", SilenceDelay, FALSE))
    /\ sinceSilence' = [on |-> TRUE, ms |-> 0]
    /\ lastOp' = "silenceAlarm"
    /\ sample' = NoSample
    /\ UNCHANGED ecgVars
    /\ heartbeatSound' = FALSE
    /\ UNCHANGED loopVars
    /\ UNCHANGED <<vitals, alarmEnabled, audioEnabled, audioContext, updates,
                   sinceStart>>
    /\ UNCHANGED nibpVars

silenceAlarm ==
    /\ Len(timers) < MaxTimers
    /\ alarmSilenced' = TRUE
    /\ Show(clearAlarms(Display))
    /\ timers' = Append(timers, Timer("silence", SilenceDelay, FALSE))
    /\ sinceSilence' = [on |-> TRUE, ms |-> 0]
    /\ lastOp' = "silenceAlarm"
    /\ sample' = NoSample
    /\ UNCHANGED ecgVars
    /\ heartbeatSound' = FALSE
    /\ UNCHANGED loopVars
    /\ UNCHANGED <<vitals, alarmEnabled, audioEnabled, audioContext, updates,
                   sinceStart>>
    /\ UNCHANGED nibpVars

\* resetAlarms without the assignment of line 454
resetAlarmsKeepsSilenced ==
    /\ Show(clearAlarms(Display))
    /\ sinceSilence' = Off
    /\ lastOp' = "resetAlarms"
    /\ sample' = NoSample
    /\ UNCHANGED ecgVars
    /\ heartbeatSound' = FALSE
    /\ UNCHANGED loopVars
    /\ UNCHANGED <<vitals, alarmEnabled, audioEnabled, audioContext,
                   alarmSilenced, updates, timers, sinceStart>>
    /\ UNCHANGED nibpVars

resetAlarms ==
    /\ Show(clearAlarms(Display))
    /\ alarmSilenced' = FALSE
    /\ sinceSilence' = Off
    /\ lastOp' = "resetAlarms"
    /\ sample' = NoSample
    /\ UNCHANGED ecgVars
    /\ heartbeatSound' = FALSE
    /\ UNCHANGED loopVars
    /\ UNCHANGED <<vitals, alarmEnabled, audioEnabled, audioContext, updates,
                   timers, sinceStart>>
    /\ UNCHANGED nibpVars

\* an expiry callback that leaves alarmSilenced as it is
SilenceExpiryKeepsSilenced ==
    \E i \in Pending("silence") :
        /\ Due(i)
        /\ timers' = RemoveAt(timers, i)
        /\ Show(Display)
        /\ lastOp' = "silenceExpiry"
        /\ sample' = NoSample
        /\ UNCHANGED ecgVars
        /\ heartbeatSound' = FALSE
        /\ UNCHANGED loopVars
        /\ UNCHANGED <<vitals, alarmEnabled, audioEnabled, audioContext,
                       alarmSilenced, updates, sinceSilence, sinceStart>>
        /\ UNCHANGED nibpVars

\* an expiry callback that evaluates the vitals once the silence is over
SilenceExpiryEvaluates ==
    \E i \in Pending("silence") :
        /\ Due(i)
        /\ alarmSilenced' = FALSE
        /\ timers' = RemoveAt(timers, i)
        /\ Show(checkAlarmsUnsilenced(vitals, Display))
        /\ lastOp' = "silenceExpiry"
        /\ sample' = NoSample
        /\ UNCHANGED ecgVars
        /\ heartbeatSound' = FALSE
        /\ UNCHANGED loopVars
        /\ UNCHANGED <<vitals, alarmEnabled, audioEnabled, audioContext,
                       updates, sinceSilence, sinceStart>>
        /\ UNCHANGED nibpVars

\* the callback silenceAlarm schedules
SilenceExpiry ==
    \E i \in Pending("silence") :
        /\ Due(i)
        /\ alarmSilenced' = FALSE
        /\ timers' = RemoveAt(timers, i)
        /\ Show(Display)
        /\ lastOp' = "silenceExpiry"
        /\ sample' = NoSample
        /\ UNCHANGED ecgVars
        /\ heartbeatSound' = FALSE
        /\ UNCHANGED loopVars
        /\ UNCHANGED <<vitals, alarmEnabled, audioEnabled, audioContext,
                       updates, sinceSilence, sinceStart>>
        /\ UNCHANGED nibpVars

(***************************************************************************)
(* NIBP handlers.  nibpStatus is "idle" until a handler writes the text.   *)
(***************************************************************************)
NibpIntervals == {0, 1, InitialNibpInterval}

Untrack(q) == [i \in 1..Len(q) |-> [q[i] EXCEPT !.tracked = FALSE]]

\* clearTimeout(this.nibpTimer): a no-op when that timer has already run
ClearTracked(q) ==
    IF \E i \in 1..Len(q) : q[i].tracked
    THEN RemoveAt(q, CHOOSE i \in 1..Len(q) : q[i].tracked)
    ELSE q

\* startNIBPMeasurement, called with the pending timers q
startNIBPMeasurement(q) ==
    IF nibpMeasuring
    THEN /\ timers' = q
         /\ UNCHANGED <<nibpMeasuring, nibpStatus, startBtnDisabled,
                        stopBtnDisabled>>
    ELSE /\ nibpMeasuring' = TRUE
         /\ nibpStatus' = "Measuring..."
         /\ startBtnDisabled' = TRUE
         /\ stopBtnDisabled' = FALSE
         /\ timers' = Append(q, Timer("deflate", DeflateDelay, FALSE))

\* 'click' on #start-nibp-btn
startNIBP ==
    /\ ~startBtnDisabled
    /\ clicks < MaxClicks
    /\ clicks' = clicks + 1
    /\ nibpMeasuring \/ Len(timers) < MaxTimers
    /\ startNIBPMeasurement(timers)
    /\ sinceStart' = IF nibpStatus = "idle" THEN [on |-> TRUE, ms |-> 0] ELSE Off
    /\ lastOp' = "startNIBP"
    /\ sample' = NoSample
    /\ UNCHANGED ecgVars
    /\ heartbeatSound' = FALSE
    /\ UNCHANGED loopVars
    /\ alarmSound' = FALSE
    /\ UNCHANGED <<nibpInterval, nibpTimer, sinceSilence>>
    /\ UNCHANGED alarmVars

\* 'click' on #stop-nibp-btn
stopNIBP ==
    /\ ~stopBtnDisabled
    /\ clicks < MaxClicks
    /\ clicks' = clicks + 1
    /\ nibpMeasuring' = FALSE
    /\ nibpStatus' = "Stopped"
    /\ startBtnDisabled' = FALSE
    /\ stopBtnDisabled' = TRUE
    /\ IF nibpTimer # "null"
       THEN timers' = ClearTracked(timers) /\ nibpTimer' = "null"
       ELSE UNCHANGED <<timers, nibpTimer>>
    /\ sinceStart' = Off
    /\ lastOp' = "stopNIBP"
    /\ sample' = NoSample
    /\ UNCHANGED ecgVars
    /\ heartbeatSound' = FALSE
    /\ UNCHANGED loopVars
    /\ alarmSound' = FALSE
    /\ UNCHANGED <<nibpInterval, sinceSilence>>
    /\ UNCHANGED alarmVars

\* an interval selector that cancels the scheduled retrigger when set to 0
setNIBPIntervalCancels(minutes) ==
    /\ nibpInterval' = minutes
    /\ timers' = IF minutes = 0 THEN ClearTracked(timers) ELSE timers
    /\ lastOp' = "setNIBPInterval"
    /\ sample' = NoSample
    /\ UNCHANGED ecgVars
    /\ heartbeatSound' = FALSE
    /\ UNCHANGED loopVars
    /\ alarmSound' = FALSE
    /\ UNCHANGED <<nibpMeasuring, nibpTimer, nibpStatus, startBtnDisabled,
                   stopBtnDisabled, clicks, sinceSilence, sinceStart>>
    /\ UNCHANGED alarmVars

\* 'change' on #nibp-interval
setNIBPInterval(minutes) ==
    /\ nibpInterval' = minutes
    /\ lastOp' = "setNIBPInterval"
    /\ sample' = NoSample
    /\ UNCHANGED ecgVars
    /\ heartbeatSound' = FALSE
    /\ UNCHANGED loopVars
    /\ alarmSound' = FALSE
    /\ UNCHANGED <<nibpMeasuring, nibpTimer, nibpStatus, startBtnDisabled,
                   stopBtnDisabled, clicks, timers, sinceSilence, sinceStart>>
    /\ UNCHANGED alarmVars

\* the outer callback scheduling the inner one after 3000 ms instead of 2000
NibpDeflateLate ==
    \E i \in Pending("deflate") :
        /\ Due(i)
        /\ nibpStatus' = "Deflating..."
        /\ timers' = Append(RemoveAt(timers, i),
                            Timer("complete", DeflateDelay, FALSE))
        /\ lastOp' = "nibpDeflate"
        /\ sample' = NoSample
        /\ UNCHANGED ecgVars
        /\ heartbeatSound' = FALSE
        /\ UNCHANGED loopVars
        /\ alarmSound' = FALSE
        /\ UNCHANGED <<nibpMeasuring, nibpInterval, nibpTimer, startBtnDisabled,
                       stopBtnDisabled, clicks, sinceSilence, sinceStart>>
        /\ UNCHANGED alarmVars

\* the outer callback of startNIBPMeasurement, after 3000 ms
NibpDeflate ==
    \E i \in Pending("deflate") :
        /\ Due(i)
        /\ nibpStatus' = "Deflating..."
        /\ timers' = Append(RemoveAt(timers, i),
                            Timer("complete", CompleteDelay, FALSE))
        /\ lastOp' = "nibpDeflate"
        /\ sample' = NoSample
        /\ UNCHANGED ecgVars
        /\ heartbeatSound' = FALSE
        /\ UNCHANGED loopVars
        /\ alarmSound' = FALSE
        /\ UNCHANGED <<nibpMeasuring, nibpInterval, nibpTimer, startBtnDisabled,
                       stopBtnDisabled, clicks, sinceSilence, sinceStart>>
        /\ UNCHANGED alarmVars

\* the inner callback, after 2000 ms more
NibpComplete ==
    \E i \in Pending("complete") :
        /\ Due(i)
        /\ nibpStatus' = "Complete"
        /\ startBtnDisabled' = FALSE
        /\ stopBtnDisabled' = TRUE
        /\ IF nibpInterval > 0
           THEN /\ nibpTimer' = "live"
                /\ timers' = Append(Untrack(RemoveAt(timers, i)),
                                    Timer("retrigger", nibpInterval * MsPerMinute,
                                          TRUE))
           ELSE /\ timers' = RemoveAt(timers, i)
                /\ UNCHANGED nibpTimer
        /\ lastOp' = "nibpComplete"
        /\ sample' = NoSample
        /\ UNCHANGED ecgVars
        /\ heartbeatSound' = FALSE
        /\ UNCHANGED loopVars
        /\ alarmSound' = FALSE
        /\ UNCHANGED <<nibpMeasuring, nibpInterval, clicks, sinceSilence,
                       sinceStart>>
        /\ UNCHANGED alarmVars

\* the callback held in this.nibpTimer, after nibpInterval minutes
NibpRetrigger ==
    \E i \in Pending("retrigger") :
        /\ Due(i)
        /\ nibpTimer' = IF timers[i].tracked THEN "fired" ELSE nibpTimer
        /\ startNIBPMeasurement(RemoveAt(timers, i))
        /\ lastOp' = "nibpRetrigger"
        /\ sample' = NoSample
        /\ UNCHANGED ecgVars
        /\ heartbeatSound' = FALSE
        /\ UNCHANGED loopVars
        /\ alarmSound' = FALSE
        /\ UNCHANGED <<nibpInterval, clicks, sinceSilence, sinceStart>>
        /\ UNCHANGED alarmVars

(***************************************************************************)
(* Time.                                                                   *)
(***************************************************************************)
\* the time until the next callback is due (0 when none is pending)
MinLeft ==
    IF timers = <<>> THEN 0
    ELSE CHOOSE m \in {timers[i].left : i \in 1..Len(timers)} :
             \A i \in 1..Len(timers) : m <= timers[i].left

\* d ms pass and no callback runs
Advance(d) ==
    /\ timers # <<>>
    /\ d > 0
    /\ d <= MinLeft
    /\ timers' = [i \in 1..Len(timers) |->
                      [timers[i] EXCEPT !.left = timers[i].left - d]]
    /\ sinceSilence' = Elapse(sinceSilence, d, SilenceDelay)
    /\ sinceStart' = IF sinceStart.on /\ sinceStart.ms + d > DeflateDelay + CompleteDelay
                     THEN Off
                     ELSE Elapse(sinceStart, d, DeflateDelay + CompleteDelay)
    /\ lastOp' = "advance"
    /\ sample' = NoSample
    /\ UNCHANGED ecgVars
    /\ heartbeatSound' = FALSE
    /\ UNCHANGED loopVars
    /\ alarmSound' = FALSE
    /\ UNCHANGED alarmVars
    /\ UNCHANGED nibpVars

(***************************************************************************)
(* The self-rescheduling loops.  A pending callback is [kind, left, via]:  *)
(* the method it calls, the time left, and whether requestAnimationFrame   *)
(* ("frame") or setTimeout ("timeout") holds it.                           *)
(***************************************************************************)
Callback(k, ms, v) == [kind |-> k, left |-> ms, via |-> v]

LoopKinds == {"animateECG", "animatePleth", "startHeartbeatAudio"}

PendingLoop(k) == {i \in 1..Len(loops) : loops[i].kind = k}

\* the loop callback that runs next: the first scheduled among those due
LoopDue(i) ==
    /\ i \in 1..Len(loops)
    /\ loops[i].left = 0
    /\ \A j \in 1..(i - 1) : loops[j].left # 0

\* a freeze button that starts the animation again when it unfreezes
toggleFreezeRestarts ==
    /\ isFrozen' = ~isFrozen
    /\ loops' = IF isFrozen
                THEN loops \o <<Callback("animateECG", FrameDelay, "frame"),
                                Callback("animatePleth", FrameDelay, "frame")>>
                ELSE loops
    /\ lastOp' = "toggleFreeze"
    /\ sample' = NoSample
    /\ UNCHANGED ecgVars
    /\ alarmSound' = FALSE
    /\ heartbeatSound' = FALSE
    /\ UNCHANGED <<currentRhythm, arrhythmiaOverlay, now, ecgTime,
                   plethTime, lastHeartbeatTime, interval>>
    /\ UNCHANGED <<timers, sinceSilence, sinceStart>>
    /\ UNCHANGED alarmVars
    /\ UNCHANGED nibpVars

\* toggleFreeze, 'click' on #freeze-btn
toggleFreeze ==
    /\ isFrozen' = ~isFrozen
    /\ lastOp' = "toggleFreeze"
    /\ sample' = NoSample
    /\ UNCHANGED ecgVars
    /\ alarmSound' = FALSE
    /\ heartbeatSound' = FALSE
    /\ UNCHANGED <<currentRhythm, arrhythmiaOverlay, now, loops, ecgTime,
                   plethTime, lastHeartbeatTime, interval>>
    /\ UNCHANGED <<timers, sinceSilence, sinceStart>>
    /\ UNCHANGED alarmVars
    /\ UNCHANGED nibpVars

\* what animateECG and animatePleth schedule when they are done
NextFrame(k) ==
    IF ~isFrozen THEN Callback(k, FrameDelay, "frame")
    ELSE Callback(k, FrozenDelay, "timeout")

animateECG ==
    \E i \in PendingLoop("animateECG") :
        /\ LoopDue(i)
        /\ ecgTime' = now
        /\ loops' = Append(RemoveAt(loops, i), NextFrame("animateECG"))
        /\ lastOp' = "animateECG"
        /\ sample' = NoSample
        /\ UNCHANGED ecgVars
        /\ alarmSound' = FALSE
        /\ heartbeatSound' = FALSE
        /\ UNCHANGED <<isFrozen, currentRhythm, arrhythmiaOverlay, now,
                       plethTime, lastHeartbeatTime, interval>>
        /\ UNCHANGED <<timers, sinceSilence, sinceStart>>
        /\ UNCHANGED alarmVars
        /\ UNCHANGED nibpVars

animatePleth ==
    \E i \in PendingLoop("animatePleth") :
        /\ LoopDue(i)
        /\ plethTime' = now
        /\ loops' = Append(RemoveAt(loops, i), NextFrame("animatePleth"))
        /\ lastOp' = "animatePleth"
        /\ sample' = NoSample
        /\ UNCHANGED ecgVars
        /\ alarmSound' = FALSE
        /\ heartbeatSound' = FALSE
        /\ UNCHANGED <<isFrozen, currentRhythm, arrhythmiaOverlay, now,
                       ecgTime, lastHeartbeatTime, interval>>
        /\ UNCHANGED <<timers, sinceSilence, sinceStart>>
        /\ UNCHANGED alarmVars
        /\ UNCHANGED nibpVars

\* the list of updateRhythmDisplay without 'PAC'
abnormalRhythmsShort == {"AF", "AFL", "VT", "VF", "PVC"}

abnormalRhythms == {"AF", "AFL", "VT", "VF", "PVC", "PAC"}

\* the class 'alarm' of #arrhythmia-overlay after updateRhythmDisplay
updateRhythmDisplay(rhythm) == rhythm \in abnormalRhythms

\* a rhythm selector that raises the alarm for an abnormal rhythm
setRhythmAlarming(value) ==
    /\ currentRhythm' = value
    /\ arrhythmiaOverlay' = updateRhythmDisplay(currentRhythm')
    /\ IF updateRhythmDisplay(value)
       THEN Show(triggerAlarm(Display, <<value>>))
       ELSE Show(Display)
    /\ lastOp' = "setRhythm"
    /\ heartbeatSound' = FALSE
    /\ sample' = NoSample
    /\ UNCHANGED ecgVars
    /\ UNCHANGED <<isFrozen, now, loops, ecgTime, plethTime, lastHeartbeatTime,
                   interval>>
    /\ UNCHANGED <<timers, sinceSilence, sinceStart>>
    /\ UNCHANGED <<vitals, alarmEnabled, audioEnabled, audioContext,
                   alarmSilenced, updates>>
    /\ UNCHANGED nibpVars

\* 'change' on #rhythm-select
setRhythm(value) ==
    /\ currentRhythm' = value
    /\ arrhythmiaOverlay' = updateRhythmDisplay(currentRhythm')
    /\ lastOp' = "setRhythm"
    /\ sample' = NoSample
    /\ UNCHANGED ecgVars
    /\ alarmSound' = FALSE
    /\ heartbeatSound' = FALSE
    /\ UNCHANGED <<isFrozen, now, loops, ecgTime, plethTime, lastHeartbeatTime,
                   interval>>
    /\ UNCHANGED <<timers, sinceSilence, sinceStart>>
    /\ UNCHANGED alarmVars
    /\ UNCHANGED nibpVars

(***************************************************************************)
(* The heartbeat check.  Math.random() is r / 1000; `variation` is held in *)
(* units of 1/100000, so (r - 500) * 15 is (Math.random() - 0.5) * 0.15.   *)
(* `interval` is [rate, variation]: 60000 / rate * (1 + variation).        *)
(***************************************************************************)
RandomDraws == {0, 999}

Variation(heartRate, r) ==
    IF heartRate < 60 THEN (r - 500) * 15
    ELSE IF heartRate > 100 THEN (r - 500) * 5
    ELSE (r - 500) * 8

\* now - this.lastHeartbeatTime >= interval
IntervalElapsed(elapsed, iv) ==
    elapsed * iv.rate * 100 >= 60 * (100000 + iv.variation)

NoInterval == [rate |-> 0, variation |-> 0]

\* a heartbeat check that does not look at audioEnabled
HeartbeatCheckDeaf ==
    \E i \in PendingLoop("startHeartbeatAudio") :
        /\ LoopDue(i)
        /\ \E r \in RandomDraws :
             LET iv == [rate |-> vitals.heartRate,
                        variation |-> Variation(vitals.heartRate, r)]
             IN  IF IntervalElapsed(now - lastHeartbeatTime, iv)
                 THEN /\ heartbeatSound' = TRUE
                      /\ lastHeartbeatTime' = now
                      /\ interval' = NoInterval
                 ELSE /\ heartbeatSound' = FALSE
                      /\ interval' = iv
                      /\ UNCHANGED lastHeartbeatTime
        /\ loops' = Append(RemoveAt(loops, i),
                           Callback("startHeartbeatAudio", PollDelay, "timeout"))
        /\ lastOp' = "startHeartbeatAudio"
        /\ sample' = NoSample
        /\ UNCHANGED ecgVars
        /\ alarmSound' = FALSE
        /\ UNCHANGED <<isFrozen, currentRhythm, arrhythmiaOverlay, now,
                       ecgTime, plethTime>>
        /\ UNCHANGED <<timers, sinceSilence, sinceStart>>
        /\ UNCHANGED alarmVars
        /\ UNCHANGED nibpVars

\* the callback startHeartbeatAudio schedules for itself
HeartbeatCheck ==
    \E i \in PendingLoop("startHeartbeatAudio") :
        /\ LoopDue(i)
        /\ IF ~audioEnabled \/ ~audioContext
           THEN /\ loops' = RemoveAt(loops, i)
                /\ heartbeatSound' = FALSE
                /\ UNCHANGED <<lastHeartbeatTime, interval>>
           ELSE /\ \E r \in RandomDraws :
                     LET iv == [rate |-> vitals.heartRate,
                                variation |-> Variation(vitals.heartRate, r)]
                     IN  IF IntervalElapsed(now - lastHeartbeatTime, iv)
                         THEN /\ heartbeatSound' = TRUE
                              /\ lastHeartbeatTime' = now
                              /\ interval' = NoInterval
                         ELSE /\ heartbeatSound' = FALSE
                              /\ interval' = iv
                              /\ UNCHANGED lastHeartbeatTime
                /\ loops' = Append(RemoveAt(loops, i),
                                   Callback("startHeartbeatAudio", PollDelay,
                                            "timeout"))
        /\ lastOp' = "startHeartbeatAudio"
        /\ sample' = NoSample
        /\ UNCHANGED ecgVars
        /\ alarmSound' = FALSE
        /\ UNCHANGED <<isFrozen, currentRhythm, arrhythmiaOverlay, now,
                       ecgTime, plethTime>>
        /\ UNCHANGED <<timers, sinceSilence, sinceStart>>
        /\ UNCHANGED alarmVars
        /\ UNCHANGED nibpVars

(***************************************************************************)
(* The ECG analysis controls.  stElevation is held in hundredths, so the   *)
(* 0.1 and -0.05 of updateSTDisplay are 10 and -5.                         *)
(***************************************************************************)
\* updateSTDisplay with the limits themselves counted as abnormal
updateSTDisplayInclusive(st) == st >= 10 \/ st <= -5

\* the class 'alarm' of #st-overlay after updateSTDisplay
updateSTDisplay(st) == st > 10 \/ st < -5

\* 'input' on #st-elevation
setSTElevation(value) ==
    /\ stElevation' = value
    /\ stOverlay' = updateSTDisplay(stElevation')
    /\ lastOp' = "setSTElevation"
    /\ alarmSound' = FALSE
    /\ heartbeatSound' = FALSE
    /\ sample' = NoSample
    /\ UNCHANGED <<qtInterval, artifacts>>
    /\ UNCHANGED loopVars
    /\ UNCHANGED <<timers, sinceSilence, sinceStart>>
    /\ UNCHANGED alarmVars
    /\ UNCHANGED nibpVars

\* 'input' on #qt-interval; updateQTDisplay writes the display and the console
setQTInterval(value) ==
    /\ qtInterval' = value
    /\ lastOp' = "setQTInterval"
    /\ alarmSound' = FALSE
    /\ heartbeatSound' = FALSE
    /\ sample' = NoSample
    /\ UNCHANGED <<stElevation, stOverlay, artifacts>>
    /\ UNCHANGED loopVars
    /\ UNCHANGED <<timers, sinceSilence, sinceStart>>
    /\ UNCHANGED alarmVars
    /\ UNCHANGED nibpVars

ArtifactFlags == {"motion", "poorContact", "muscleTremor", "baselineDrift"}

\* 'change' on one of the four artifact checkboxes
setArtifact(flag, checked) ==
    /\ artifacts' = [artifacts EXCEPT ![flag] = checked]
    /\ lastOp' = "setArtifact"
    /\ alarmSound' = FALSE
    /\ heartbeatSound' = FALSE
    /\ sample' = NoSample
    /\ UNCHANGED <<stElevation, stOverlay, qtInterval>>
    /\ UNCHANGED loopVars
    /\ UNCHANGED <<timers, sinceSilence, sinceStart>>
    /\ UNCHANGED alarmVars
    /\ UNCHANGED nibpVars

(***************************************************************************)
(* One ECG sample, as the loop of animateECG computes it.  beatPhase is    *)
(* held in thousandths.  The sines are not evaluated: a base amplitude     *)
(* sin((beatPhase - off) * PI * freq) * gain is Wave(off, freq, gain),     *)
(* with off in thousandths, freq in hundredths and gain in 1/10000, and a  *)
(* base amplitude without a sine is Flat(gain).  An amplitude is the base  *)
(* plus offset / 100000 plus motion / 10 * sin(2t) plus tremor / 10 *      *)
(* sin(8t) plus drift / 10 * sin(0.1t).  Math.random() is r / 1000.        *)
(***************************************************************************)
Wave(o, f, g) == [form |-> "sin", off |-> o, freq |-> f, gain |-> g]

Flat(g) == [form |-> "flat", off |-> 0, freq |-> 0, gain |-> g]

\* generateArrhythmiaECG with a default branch that leaves the amplitude 0
generateArrhythmiaECGNoDefault(rhythm, beatPhase, r) ==
    CASE rhythm = "NSR" ->
            IF beatPhase < 100 THEN Wave(0, 1000, 2000)
            ELSE IF beatPhase < 150 THEN Wave(100, 2000, 10000)
            ELSE IF beatPhase < 300 THEN Wave(150, 667, 3000)
            ELSE Flat(0)
      [] rhythm = "AF" ->
            IF beatPhase < 100 THEN Wave(0, 1000, 1000 + (r - 500) * 3)
            ELSE IF beatPhase < 150 THEN Wave(100, 2000, 10000)
            ELSE IF beatPhase < 300 THEN Wave(150, 667, 3000)
            ELSE Flat(0)
      [] rhythm = "VT" ->
            IF beatPhase < 100 THEN Wave(0, 1000, 1000)
            ELSE IF beatPhase < 200 THEN Wave(100, 1000, 12000)
            ELSE IF beatPhase < 400 THEN Wave(200, 500, 4000)
            ELSE Flat(0)
      [] rhythm = "VF" -> Flat((r - 500) * 20)
      [] rhythm = "PVC" ->
            IF r < 100
            THEN IF beatPhase < 150 THEN Wave(0, 1330, 15000)
                 ELSE IF beatPhase < 300 THEN Wave(150, 667, 5000)
                 ELSE Flat(0)
            ELSE IF beatPhase < 100 THEN Wave(0, 1000, 2000)
                 ELSE IF beatPhase < 150 THEN Wave(100, 2000, 10000)
                 ELSE IF beatPhase < 300 THEN Wave(150, 667, 3000)
                 ELSE Flat(0)
      [] OTHER -> Flat(0)

generateArrhythmiaECG(rhythm, beatPhase, r) ==
    CASE rhythm = "NSR" ->
            IF beatPhase < 100 THEN Wave(0, 1000, 2000)
            ELSE IF beatPhase < 150 THEN Wave(100, 2000, 10000)
            ELSE IF beatPhase < 300 THEN Wave(150, 667, 3000)
            ELSE Flat(0)
      [] rhythm = "AF" ->
            IF beatPhase < 100 THEN Wave(0, 1000, 1000 + (r - 500) * 3)
            ELSE IF beatPhase < 150 THEN Wave(100, 2000, 10000)
            ELSE IF beatPhase < 300 THEN Wave(150, 667, 3000)
            ELSE Flat(0)
      [] rhythm = "VT" ->
            IF beatPhase < 100 THEN Wave(0, 1000, 1000)
            ELSE IF beatPhase < 200 THEN Wave(100, 1000, 12000)
            ELSE IF beatPhase < 400 THEN Wave(200, 500, 4000)
            ELSE Flat(0)
      [] rhythm = "VF" -> Flat((r - 500) * 20)
      [] rhythm = "PVC" ->
            IF r < 100
            THEN IF beatPhase < 150 THEN Wave(0, 1330, 15000)
                 ELSE IF beatPhase < 300 THEN Wave(150, 667, 5000)
                 ELSE Flat(0)
            ELSE IF beatPhase < 100 THEN Wave(0, 1000, 2000)
                 ELSE IF beatPhase < 150 THEN Wave(100, 2000, 10000)
                 ELSE IF beatPhase < 300 THEN Wave(150, 667, 3000)
                 ELSE Flat(0)
      [] OTHER ->
            IF beatPhase < 100 THEN Wave(0, 1000, 2000)
            ELSE IF beatPhase < 150 THEN Wave(100, 2000, 10000)
            ELSE IF beatPhase < 300 THEN Wave(150, 667, 3000)
            ELSE Flat(0)

Amplitude(w) == [base |-> w, offset |-> 0, motion |-> 0, tremor |-> 0, drift |-> 0]

\* addArtifacts adding the muscle tremor term whatever its flag
addArtifactsUngated(amplitude, r) ==
    LET a1 == IF artifacts.motion
              THEN [amplitude EXCEPT !.motion = @ + 3] ELSE amplitude
        a2 == IF artifacts.poorContact
              THEN [a1 EXCEPT !.offset = @ + (r - 500) * 40] ELSE a1
        a3 == [a2 EXCEPT !.tremor = @ + 2]
        a4 == IF artifacts.baselineDrift
              THEN [a3 EXCEPT !.drift = @ + 5] ELSE a3
    IN  a4

\* addArtifacts; r is what Math.random() returns if it is called
addArtifacts(amplitude, r) ==
    LET a1 == IF artifacts.motion
              THEN [amplitude EXCEPT !.motion = @ + 3] ELSE amplitude
        a2 == IF artifacts.poorContact
              THEN [a1 EXCEPT !.offset = @ + (r - 500) * 40] ELSE a1
        a3 == IF artifacts.muscleTremor
              THEN [a2 EXCEPT !.tremor = @ + 2] ELSE a2
        a4 == IF artifacts.baselineDrift
              THEN [a3 EXCEPT !.drift = @ + 5] ELSE a3
    IN  a4

\* lines 976-988: the base amplitude, the ST term, the noise
SampleInput(beatPhase, rBase, rNoise) ==
    LET a0 == Amplitude(generateArrhythmiaECG(currentRhythm, beatPhase, rBase))
        a1 == IF beatPhase >= 150 /\ beatPhase < 250
              THEN [a0 EXCEPT !.offset = @ + stElevation * 300] ELSE a0
    IN  [a1 EXCEPT !.offset = @ + (rNoise - 500) * 5]

BeatPhases == {0, 99, 100, 149, 150, 249, 250, 299, 300, 999}

\* one pass of the loop of animateECG, for one x
EcgSample ==
    \E beatPhase \in BeatPhases : \E rBase, rNoise, rContact \in RandomDraws :
        /\ sample' = [rhythm |-> currentRhythm,
                      beatPhase |-> beatPhase,
                      draw |-> rBase,
                      input |-> SampleInput(beatPhase, rBase, rNoise),
                      contact |-> rContact,
                      output |-> addArtifacts(SampleInput(beatPhase, rBase, rNoise),
                                              rContact)]
        /\ lastOp' = "ecgSample"
        /\ alarmSound' = FALSE
        /\ heartbeatSound' = FALSE
        /\ UNCHANGED ecgVars
        /\ UNCHANGED loopVars
        /\ UNCHANGED <<timers, sinceSilence, sinceStart>>
        /\ UNCHANGED alarmVars
        /\ UNCHANGED nibpVars

\* the pending callbacks of the loops `kinds`
LoopsOf(kinds) == {i \in 1..Len(loops) : loops[i].kind \in kinds}

\* the time until the next callback of the loops `kinds` (0 when none is pending)
MinLoopLeft(kinds) ==
    IF LoopsOf(kinds) = {} THEN 0
    ELSE CHOOSE m \in {loops[i].left : i \in LoopsOf(kinds)} :
             \A i \in LoopsOf(kinds) : m <= loops[i].left

\* time passes until the next callback of the loops `kinds` is due, up to
\* `horizon` ms after init()
Pass(kinds, horizon) ==
    /\ MinLoopLeft(kinds) > 0
    /\ now + MinLoopLeft(kinds) <= LoadTime + horizon
    /\ now' = now + MinLoopLeft(kinds)
    /\ loops' = [i \in 1..Len(loops) |->
                     IF i \in LoopsOf(kinds)
                     THEN [loops[i] EXCEPT !.left = loops[i].left - MinLoopLeft(kinds)]
                     ELSE loops[i]]
    /\ lastOp' = "advance"
    /\ sample' = NoSample
    /\ UNCHANGED ecgVars
    /\ alarmSound' = FALSE
    /\ heartbeatSound' = FALSE
    /\ UNCHANGED <<isFrozen, currentRhythm, arrhythmiaOverlay, ecgTime,
                   plethTime, lastHeartbeatTime, interval>>
    /\ UNCHANGED <<timers, sinceSilence, sinceStart>>
    /\ UNCHANGED alarmVars
    /\ UNCHANGED nibpVars

(***************************************************************************)
(* The state the constructor and init() leave.  The audio capability may   *)
(* be missing (setupAudio then clears audioEnabled); the markup decides    *)
(* whether the stop button starts disabled.  init() has run animateECG,    *)
(* animatePleth and startHeartbeatAudio once: the first heartbeat check    *)
(* finds lastHeartbeatTime = 0, far more than an interval ago, and fires   *)
(* a cue if audio is available.                                            *)
(***************************************************************************)
Init ==
    /\ vitals = InitialVitals
    /\ alarmEnabled = TRUE
    /\ audioContext \in BOOLEAN
    /\ audioEnabled = audioContext
    /\ alarmActive = FALSE
    /\ alarmSilenced = FALSE
    /\ alarmMessage = ""
    /\ overlays = [o \in OverlayIds |-> FALSE]
    /\ alarmSound = FALSE
    /\ nibpMeasuring = FALSE
    /\ nibpInterval = InitialNibpInterval
    /\ nibpTimer = "null"
    /\ nibpStatus = "idle"
    /\ startBtnDisabled = FALSE
    /\ stopBtnDisabled \in BOOLEAN
    /\ timers = <<>>
    /\ lastOp = "init"
    /\ updates = 0
    /\ clicks = 0
    /\ sinceSilence = Off
    /\ sinceStart = Off
    /\ isFrozen = FALSE
    /\ currentRhythm = "NSR"
    /\ arrhythmiaOverlay = updateRhythmDisplay(currentRhythm)
    /\ now = LoadTime
    /\ ecgTime = now
    /\ plethTime = now
    /\ loops = <<Callback("animateECG", FrameDelay, "frame"),
                 Callback("animatePleth", FrameDelay, "frame")>>
               \o (IF audioContext
                   THEN <<Callback("startHeartbeatAudio", PollDelay, "timeout")>>
                   ELSE <<>>)
    /\ lastHeartbeatTime = IF audioContext THEN now ELSE 0
    /\ interval = NoInterval
    /\ heartbeatSound = audioContext
    /\ stElevation = 0
    /\ stOverlay = updateSTDisplay(stElevation)
    /\ qtInterval = 400
    /\ artifacts = [f \in ArtifactFlags |-> FALSE]
    /\ sample = NoSample

\* the values a slider is moved to: each limit, a value above the high limit
\* and a value below the low limit (45 for the heart rate)
VitalValues(v) ==
    {IF v = "heartRate" THEN 45 ELSE alarmLimits[v].low - 1,
     alarmLimits[v].low, alarmLimits[v].high, alarmLimits[v].high + 1}

\* 'input' on the slider of one of the vitals `names`
VitalInput(names) ==
    \E v \in names : \E x \in VitalValues(v) : updateVital(v, x)

AlarmCommand ==
    \/ \E b \in BOOLEAN : setAlarmEnabled(b)
    \/ testAlarm
    \/ silenceAlarm
    \/ resetAlarms

NibpCommand ==
    \/ startNIBP
    \/ stopNIBP
    \/ \E m \in NibpIntervals : setNIBPInterval(m)

NibpCallback ==
    \/ NibpDeflate
    \/ NibpComplete
    \/ NibpRetrigger

AudioCommand == \E b \in BOOLEAN : setAudioEnabled(b)

\* the values of #rhythm-select, and one the monitor does not know
RhythmValues == {"NSR", "AF", "AFL", "VT", "VF", "PVC", "PAC", "SVT"}

\* values of #st-elevation around the two limits, in hundredths
STValues == {-6, -5, 0, 10, 11}

\* values of #qt-interval around the 500 ms of updateQTDisplay
QTValues == {400, 500, 501}

AnalysisCommand ==
    \/ \E r \in RhythmValues : setRhythm(r)
    \/ \E v \in STValues : setSTElevation(v)
    \/ \E q \in QTValues : setQTInterval(q)

WaveCommand ==
    \/ toggleFreeze
    \/ \E r \in RhythmValues : setRhythm(r)

WaveLoops == {"animateECG", "animatePleth"}

WaveCallback ==
    \/ animateECG
    \/ animatePleth

\* d ms pass for the timers and the loops alike, and no callback runs
Tick ==
    \E d \in {SilenceStep, NibpStep, MinLeft, MinLoopLeft(LoopKinds)} :
        /\ d > 0
        /\ timers # <<>> => d <= MinLeft
        /\ loops # <<>> => d <= MinLoopLeft(LoopKinds)
        /\ timers' = [i \in 1..Len(timers) |->
                          [timers[i] EXCEPT !.left = timers[i].left - d]]
        /\ loops' = [i \in 1..Len(loops) |->
                         [loops[i] EXCEPT !.left = loops[i].left - d]]
        /\ now' = now + d
        /\ sinceSilence' = Elapse(sinceSilence, d, SilenceDelay)
        /\ sinceStart' = IF sinceStart.on
                              /\ sinceStart.ms + d > DeflateDelay + CompleteDelay
                         THEN Off
                         ELSE Elapse(sinceStart, d, DeflateDelay + CompleteDelay)
        /\ lastOp' = "advance"
        /\ sample' = NoSample
        /\ UNCHANGED ecgVars
        /\ alarmSound' = FALSE
        /\ heartbeatSound' = FALSE
        /\ UNCHANGED <<isFrozen, currentRhythm, arrhythmiaOverlay, ecgTime,
                       plethTime, lastHeartbeatTime, interval>>
        /\ UNCHANGED alarmVars
        /\ UNCHANGED nibpVars

Next ==
    \/ VitalInput(VitalNames)
    \/ AlarmCommand
    \/ AudioCommand
    \/ SilenceExpiry
    \/ NibpCommand
    \/ NibpCallback
    \/ Tick
    \/ WaveCommand
    \/ WaveCallback
    \/ HeartbeatCheck
    \/ AnalysisCommand
    \/ \E f \in ArtifactFlags : \E b \in BOOLEAN : setArtifact(f, b)
    \/ EcgSample

Spec == Init /\ [][Next]_vars

\* a browser with Web Audio
InitAudio == Init /\ audioContext

\* Each of the specifications below follows one part of the monitor and
\* lets time pass for the callbacks of that part only: Advance for the
\* timers, Pass for the loops it names.
\* the alarm evaluation: all six sliders, the commands given at one instant
EvalNext ==
    \/ VitalInput(VitalNames)
    \/ AlarmCommand

EvalSpec == InitAudio /\ [][EvalNext]_vars

\* the alarm engine in time: the heart-rate slider, time in steps of SilenceStep
AlarmTick == \E d \in {SilenceStep, MinLeft} : Advance(d)

AlarmNext ==
    \/ VitalInput({"heartRate"})
    \/ AlarmCommand
    \/ SilenceExpiry
    \/ AlarmTick

AlarmSpec == InitAudio /\ [][AlarmNext]_vars

\* the NIBP cycle alone: no alarm command is given.  Time moves in steps of
\* NibpStep while a measurement is under way, and from callback to callback
\* while only retriggers are pending.
NibpTick ==
    \E d \in (IF Pending("deflate") \cup Pending("complete") # {}
              THEN {NibpStep, MinLeft} ELSE {MinLeft}) : Advance(d)

NibpNext ==
    \/ NibpCommand
    \/ NibpCallback
    \/ NibpTick

NibpSpec == InitAudio /\ [][NibpNext]_vars

\* the two animation loops, the freeze button and the rhythm selector
WaveNext ==
    \/ WaveCommand
    \/ WaveCallback
    \/ Pass(WaveLoops, WaveHorizon)

WaveSpec == InitAudio /\ [][WaveNext]_vars

\* the ECG analysis controls beside the alarm engine, at one instant: the
\* heart-rate slider, the test and the silence button give the alarm states
AnalysisNext ==
    \/ VitalInput({"heartRate"})
    \/ testAlarm
    \/ silenceAlarm
    \/ AnalysisCommand

AnalysisSpec == InitAudio /\ [][AnalysisNext]_vars

\* the ECG samples: the rhythm selector, the artifact checkboxes and single
\* samples of a frame
SampleNext ==
    \/ \E r \in RhythmValues : setRhythm(r)
    \/ \E f \in ArtifactFlags : \E b \in BOOLEAN : setArtifact(f, b)
    \/ EcgSample

SampleSpec == InitAudio /\ [][SampleNext]_vars

\* the heartbeat check and the audio switch, with or without Web Audio: the
\* heart-rate slider, the test button and the audio checkbox
HeartNext ==
    \/ VitalInput({"heartRate"})
    \/ testAlarm
    \/ AudioCommand
    \/ HeartbeatCheck
    \/ Pass({"startHeartbeatAudio"}, HeartHorizon)

HeartSpec == Init /\ [][HeartNext]_vars

(***************************************************************************)
(* Properties.                                                             *)
(***************************************************************************)
NibpCallbacks == Pending("deflate") \cup Pending("complete") \cup Pending("retrigger")

\* a callback is due at this instant and has not run yet
DueNow == timers # <<>> /\ MinLeft = 0

\* C1: after silenceAlarm() at time T, with no resetAlarms() since, no
\* updateVital evaluation turns alarmActive on before T + 120000 ms, also
\* when an earlier silenceAlarm() or a silence-then-reset came before T.
C1_NoTriggerWithin120s ==
    [][(lastOp' = "updateVital" /\ sinceSilence.on
            /\ sinceSilence.ms < SilenceDelay /\ ~alarmActive)
        => ~alarmActive']_vars

\* C2: stopNIBP() cancels every pending NIBP callback, and the status stays
\* 'Stopped' until startNIBP() is called again.
C2_StopCancelsEverything ==
    [][/\ lastOp' = "stopNIBP" => NibpCallbacks' = {}
       /\ nibpStatus = "Stopped"
            => (nibpStatus' = "Stopped" \/ lastOp' = "startNIBP")]_vars

\* C3: the auto-retrigger that fires after a cycle completed, with no
\* stopNIBP() since, begins a new cycle: the status is 'Measuring...' again
\* and the transition to 'Deflating...' is scheduled.
C3_RetriggerStartsCycle ==
    [][(lastOp' = "nibpRetrigger" /\ nibpStatus = "Complete")
        => (nibpStatus' = "Measuring..." /\ Pending("deflate")' # {})]_vars

\* C4: startNIBP() in the idle, complete or stopped state moves the cycle to
\* measuring and schedules the transition to deflating.
C4_StartOutsideMeasuring ==
    [][(lastOp' = "startNIBP" /\ clicks' = clicks + 1
            /\ nibpStatus \in {"idle", "Complete", "Stopped"})
        => (nibpStatus' = "Measuring..."
            /\ Cardinality(Pending("deflate")') = Cardinality(Pending("deflate")) + 1)]_vars

\* C5: t ms after startNIBP() in the idle state, with no other start or stop
\* since, the status is 'Measuring...' for t < 3000, 'Deflating...' for
\* 3000 <= t < 5000 and 'Complete' at t = 5000; at 3000 and at 5000 the
\* earlier status shows until the callback due at that instant has run.
C5_FirstCycleTimeline ==
    sinceStart.on =>
        nibpStatus =
            IF sinceStart.ms < DeflateDelay THEN "Measuring..."
            ELSE IF sinceStart.ms = DeflateDelay /\ DueNow THEN "Measuring..."
            ELSE IF sinceStart.ms < DeflateDelay + CompleteDelay THEN "Deflating..."
            ELSE IF DueNow THEN "Deflating..."
            ELSE "Complete"

\* C5 witness: 5000 ms after the start the cycle is complete
C5_Witness ==
    /\ sinceStart.on
    /\ sinceStart.ms = DeflateDelay + CompleteDelay
    /\ nibpStatus = "Complete"
    /\ lastOp = "nibpComplete"

\* C6: at most one NIBP callback (deflate, complete or retrigger) is pending.
C6_OneNibpCallback == Cardinality(NibpCallbacks) <= 1

\* C7: at most one silence-expiry callback is pending.
C7_OneSilenceExpiry == Cardinality(Pending("silence")) <= 1

(***************************************************************************)
(* What the documented alarm evaluation shows for the vitals held: the     *)
(* limits and the message texts are written out here, not taken from       *)
(* alarmLimits, BreachMessage or Join.                                     *)
(***************************************************************************)
DocumentedLow ==
    [heartRate |-> 60, spo2 |-> 95, respiratoryRate |-> 12, systolicBP |-> 90,
     diastolicBP |-> 60, temperature |-> 360]

DocumentedHigh ==
    [heartRate |-> 100, spo2 |-> 100, respiratoryRate |-> 20, systolicBP |-> 140,
     diastolicBP |-> 90, temperature |-> 375]

DocumentedRange ==
    [heartRate |-> "60-100", spo2 |-> "95-100", respiratoryRate |-> "12-20",
     systolicBP |-> "90-140", diastolicBP |-> "60-90", temperature |-> "36-37.5"]

Outside(v) == vitals[v] < DocumentedLow[v] \/ vitals[v] > DocumentedHigh[v]

AtLimit(v) == vitals[v] = DocumentedLow[v] \/ vitals[v] = DocumentedHigh[v]

ValueText(v) ==
    IF v # "temperature" THEN ToString(vitals[v])
    ELSE CASE vitals[v] = 359 -> "35.9"
           [] vitals[v] = 360 -> "36"
           [] vitals[v] = 365 -> "36.5"
           [] vitals[v] = 375 -> "37.5"
           [] vitals[v] = 376 -> "37.6"

ExpectedMessage ==
    LET breaching == SelectSeq(<<"heartRate", "spo2", "respiratoryRate",
                                 "systolicBP", "diastolicBP", "temperature">>,
                               Outside)
        text(v) == v \o ": " \o ValueText(v) \o " (Normal: " \o DocumentedRange[v] \o ")"
        upto[i \in 0..Len(breaching)] ==
            IF i = 0 THEN ""
            ELSE IF i = 1 THEN text(breaching[1])
            ELSE upto[i - 1] \o ", " \o text(breaching[i])
    IN  upto[Len(breaching)]

\* an updateVital has just run with the alarms enabled and not silenced
Evaluated == lastOp = "updateVital" /\ alarmEnabled /\ ~alarmSilenced

\* C8: after a vital is set with alarmEnabled and not silenced, alarmActive
\* holds iff some vital is outside its limits, and then the message is the
\* breach messages of exactly the breaching vitals, in field order, joined
\* with ", "; heartRate 45 alone gives "heartRate: 45 (Normal: 60-100)".
C8_EvaluationResult ==
    Evaluated =>
        /\ alarmActive <=> \E v \in VitalNames : Outside(v)
        /\ alarmActive => alarmMessage = ExpectedMessage
        /\ vitals = [InitialVitals EXCEPT !.heartRate = 45]
             => alarmActive /\ alarmMessage = "heartRate: 45 (Normal: 60-100)"

\* C8 witness: two vitals breach and both messages show, heartRate first
C8_Witness ==
    /\ Evaluated
    /\ alarmActive
    /\ alarmMessage =
         "heartRate: 45 (Normal: 60-100), temperature: 37.6 (Normal: 36-37.5)"

\* C9: after a vital is set with alarmEnabled and not silenced, a vital equal
\* to its low or its high limit is not flagged: its overlay is clear (the
\* overlay systolicBP shares is set only by a diastolicBP outside its
\* limits), it adds no breach message, and with no vital strictly outside
\* its limits there is no alarm.
C9_LimitNotBreach ==
    Evaluated =>
        \A v \in VitalNames :
            AtLimit(v) =>
                /\ v # "systolicBP" => ~overlays[vitalOverlays[v]]
                /\ v = "systolicBP" => (overlays["bp-overlay"] => Outside("diastolicBP"))
                /\ (\A w \in VitalNames : ~Outside(w)) => ~alarmActive
                /\ alarmActive => alarmMessage = ExpectedMessage

\* C9 witness: one vital at its high limit, one at its low limit, no alarm
C9_Witness ==
    /\ Evaluated
    /\ vitals["heartRate"] = 100
    /\ vitals["temperature"] = 360
    /\ ~alarmActive

\* C10: with the alarms disabled or silenced, setting a vital stores the
\* value and leaves alarmActive, the message, the overlays and alarmSilenced
\* as they were, and no alarm tone is requested.
C10_SkippedEvaluation ==
    [][(lastOp' = "updateVital" /\ updates' = updates + 1
            /\ (~alarmEnabled \/ alarmSilenced))
        => /\ UNCHANGED <<alarmActive, alarmMessage, overlays, alarmSilenced>>
           /\ ~alarmSound'
           /\ \E v \in VitalNames :
                  /\ vitals'[v] \in VitalValues(v)
                  /\ \A w \in VitalNames \ {v} : vitals'[w] = vitals[w]]_vars

\* C10 witness: a test alarm raised during a silence is still shown after a
\* breaching heart rate is set
C10_Witness ==
    /\ lastOp = "updateVital"
    /\ alarmSilenced
    /\ alarmActive
    /\ alarmMessage = TestAlarmMessage
    /\ vitals["heartRate"] = 45

\* C11: after an evaluation that is not skipped, each vital's overlay is set
\* iff that vital is in breach, and the overlay shared by systolicBP and
\* diastolicBP is set iff either of the two is in breach.
C11_OverlayIffBreach ==
    Evaluated =>
        /\ \A v \in VitalNames \ {"systolicBP", "diastolicBP"} :
               overlays[vitalOverlays[v]] <=> Outside(v)
        /\ overlays[vitalOverlays["systolicBP"]]
               <=> (Outside("systolicBP") \/ Outside("diastolicBP"))

NoOverlay == \A o \in OverlayIds : ~overlays[o]

\* C12: alarmSilenced does not outlive the silence: while it is true an
\* expiry callback is pending that runs 120000 ms after the last
\* silenceAlarm(), and once those 120000 ms have passed and the callbacks due
\* have run, alarmSilenced is false, whether or not a breach persists.
C12_SilenceExpires ==
    /\ alarmSilenced =>
          /\ sinceSilence.on
          /\ \E i \in Pending("silence") :
                 timers[i].left + sinceSilence.ms = SilenceDelay
    /\ (sinceSilence.on /\ sinceSilence.ms = SilenceDelay /\ ~DueNow)
          => ~alarmSilenced

C12_Witness ==
    /\ lastOp = "silenceExpiry"
    /\ sinceSilence.on
    /\ sinceSilence.ms = SilenceDelay
    /\ ~DueNow
    /\ ~alarmSilenced
    /\ Outside("heartRate")

\* C13: testAlarm() leaves alarmActive true with the test message whatever
\* the vitals, alarmEnabled and alarmSilenced are, and changes neither
\* alarmSilenced nor the vitals.
C13_TestAlarmAlwaysRaises ==
    [][lastOp' = "testAlarm"
        => /\ alarmActive'
           /\ alarmMessage' = TestAlarmMessage
           /\ alarmSilenced' = alarmSilenced
           /\ vitals' = vitals]_vars

C13_Witness ==
    /\ lastOp = "testAlarm"
    /\ alarmActive
    /\ alarmMessage = TestAlarmMessage
    /\ ~alarmEnabled
    /\ alarmSilenced
    /\ \A v \in VitalNames : ~Outside(v)

\* C14: resetAlarms() leaves alarmActive false, alarmSilenced false and no
\* overlay set, and an updateVital that comes right after it with the alarms
\* enabled and a vital in breach raises the alarm, however recent the last
\* silenceAlarm() is.
C14_ResetRearms ==
    [][/\ lastOp' = "resetAlarms"
            => (~alarmActive' /\ ~alarmSilenced' /\ NoOverlay')
       /\ (lastOp = "resetAlarms" /\ lastOp' = "updateVital" /\ alarmEnabled
              /\ \E v \in VitalNames : Outside(v)')
            => alarmActive']_vars

\* the alarm is up after a reset although a silence period is still running
C14_Witness ==
    /\ lastOp = "updateVital"
    /\ alarmActive
    /\ ~sinceSilence.on
    /\ Pending("silence") # {}
    /\ \A i \in Pending("silence") : timers[i].left > 0

\* C15: silenceAlarm() leaves alarmSilenced true, alarmActive false and no
\* overlay set, also when the alarm it silences was raised by testAlarm().
C15_SilenceClearsDisplay ==
    lastOp = "silenceAlarm" => (alarmSilenced /\ ~alarmActive /\ NoOverlay)

\* the silenced alarm was the test alarm: its text is still in the banner
C15_Witness ==
    /\ lastOp = "silenceAlarm"
    /\ alarmSilenced
    /\ ~alarmActive
    /\ alarmMessage = TestAlarmMessage

\* C16: a tick that runs while the monitor is frozen is rescheduled 100 ms
\* later, and a frozen tick that follows a frozen tick computes its samples
\* for the same time as the one before; for the ECG and for the pleth tick.
C16_FrozenTimeHeld ==
    [][/\ (lastOp' = "animateECG" /\ isFrozen)
            => /\ \E i \in 1..Len(loops') :
                      /\ loops'[i].kind = "animateECG"
                      /\ loops'[i].left = FrozenDelay
               /\ (\E i \in PendingLoop("animateECG") : loops[i].via = "timeout")
                      => ecgTime' = ecgTime
       /\ (lastOp' = "animatePleth" /\ isFrozen)
            => /\ \E i \in 1..Len(loops') :
                      /\ loops'[i].kind = "animatePleth"
                      /\ loops'[i].left = FrozenDelay
               /\ (\E i \in PendingLoop("animatePleth") : loops[i].via = "timeout")
                      => plethTime' = plethTime]_vars

\* C17: a step that calls triggerAlarm (testAlarm, or an updateVital that is
\* not skipped and finds a breach) requests the alarm tone iff audio is
\* enabled and available, and while audioEnabled is false no step requests
\* an alarm tone or a heartbeat tone.
C17_TonesFollowAudio ==
    [][/\ (\/ lastOp' = "testAlarm"
           \/ /\ lastOp' = "updateVital"
              /\ alarmEnabled
              /\ ~alarmSilenced
              /\ \E v \in VitalNames : Outside(v)')
            => (alarmSound' <=> (audioEnabled /\ audioContext))
       /\ ~audioEnabled => (~alarmSound' /\ ~heartbeatSound')]_vars

\* a test alarm without a tone, after the heartbeat check has run with the
\* audio switched off
C17_Witness ==
    /\ lastOp = "testAlarm"
    /\ alarmActive
    /\ audioContext
    /\ ~audioEnabled
    /\ ~alarmSound
    /\ PendingLoop("startHeartbeatAudio") = {}

\* C18: whenever audio is enabled and available a heartbeat check is pending.
C18_HeartbeatKeepsPolling ==
    (audioEnabled /\ audioContext) => PendingLoop("startHeartbeatAudio") # {}

DocumentedJitter(rate) ==
    IF rate < 60 THEN 7500 ELSE IF rate > 100 THEN 2500 ELSE 4000

\* C19: between two heartbeat cues every check compares the elapsed time
\* against one and the same interval (at an unchanged heart rate), and the
\* interval is within 60000 / heartRate times 1 +- 7.5% below 60, 1 +- 2.5%
\* above 100 and 1 +- 4% from 60 to 100.
C19_OneDrawPerBeat ==
    [][(lastOp' = "startHeartbeatAudio" /\ audioEnabled /\ audioContext)
        => /\ (interval # NoInterval /\ interval.rate = vitals.heartRate)
                => /\ heartbeatSound'
                        <=> IntervalElapsed(now - lastHeartbeatTime, interval)
                   /\ ~heartbeatSound' => interval' = interval
           /\ interval' # NoInterval
                => /\ interval'.variation <= DocumentedJitter(interval'.rate)
                   /\ interval'.variation >= -DocumentedJitter(interval'.rate)]_vars

\* C20: after setRhythm(r) the arrhythmia overlay is set iff r is one of AF,
\* AFL, VT, VF, PVC, PAC.
C20_ArrhythmiaOverlay ==
    lastOp = "setRhythm"
        => (arrhythmiaOverlay
              <=> currentRhythm \in {"AF", "AFL", "VT", "VF", "PVC", "PAC"})

C20_Witness ==
    /\ lastOp = "setRhythm"
    /\ currentRhythm = "PAC"
    /\ arrhythmiaOverlay

\* C21: after setSTElevation(v) the ST overlay is set iff v > 0.1 or
\* v < -0.05; at 0.1 and at -0.05 it is cleared.
C21_STOverlay ==
    lastOp = "setSTElevation" => (stOverlay <=> stElevation \notin -5..10)

C21_Witness ==
    /\ lastOp = "setSTElevation"
    /\ stElevation = 10
    /\ ~stOverlay

\* C22: setRhythm, setSTElevation and setQTInterval leave alarmActive,
\* alarmSilenced, the alarm message and the vital overlays as they are and
\* request no alarm tone, whatever value they set.
C22_AnalysisLeavesAlarm ==
    [][lastOp' \in {"setRhythm", "setSTElevation", "setQTInterval"}
        => /\ UNCHANGED <<alarmActive, alarmSilenced, alarmMessage, overlays>>
           /\ ~alarmSound']_vars

\* QT above 500 set with an abnormal rhythm and ST, no alarm up and silenced
C22_Witness ==
    /\ lastOp = "setQTInterval"
    /\ qtInterval > 500
    /\ currentRhythm = "VT"
    /\ stOverlay
    /\ ~alarmActive
    /\ alarmSilenced

\* C23: when a cycle reaches 'Complete' with nibpInterval = 0 no NIBP
\* callback is pending, and the status stays 'Complete' with no callback
\* pending until startNIBP() or stopNIBP() is called.
C23_IntervalZeroStops ==
    [][/\ (lastOp' = "nibpComplete" /\ nibpInterval = 0)
            => (nibpStatus' = "Complete" /\ NibpCallbacks' = {})
       /\ (nibpStatus = "Complete" /\ NibpCallbacks = {}
              /\ lastOp' \notin {"startNIBP", "stopNIBP"})
            => (nibpStatus' = "Complete" /\ NibpCallbacks' = {})]_vars

\* C24: setNIBPInterval(m) leaves every pending callback as it is, the
\* scheduled retrigger included, also for m = 0; the retrigger a completing
\* cycle schedules fires nibpInterval minutes later, with nibpInterval as
\* it is at the completion.
C24_IntervalAppliesAtCompletion ==
    [][/\ lastOp' = "setNIBPInterval"
            => (timers' = timers /\ nibpTimer' = nibpTimer)
       /\ (lastOp' = "nibpComplete" /\ nibpInterval > 0)
            => \E i \in 1..Len(timers') :
                   /\ timers'[i].kind = "retrigger"
                   /\ timers'[i].tracked
                   /\ timers'[i].left = nibpInterval * MsPerMinute]_vars

\* the interval set to 0 while the retrigger of the last cycle is pending
C24_Witness ==
    /\ lastOp = "setNIBPInterval"
    /\ nibpInterval = 0
    /\ nibpTimer = "live"
    /\ \E i \in Pending("retrigger") : timers[i].tracked

\* the documented NSR base amplitude: P wave in [0, 0.1), QRS in [0.1, 0.15),
\* T wave in [0.15, 0.3), nothing elsewhere
DocumentedNSR(phase) ==
    IF phase \in 0..99 THEN [form |-> "sin", off |-> 0, freq |-> 1000, gain |-> 2000]
    ELSE IF phase \in 100..149
         THEN [form |-> "sin", off |-> 100, freq |-> 2000, gain |-> 10000]
    ELSE IF phase \in 150..299
         THEN [form |-> "sin", off |-> 150, freq |-> 667, gain |-> 3000]
    ELSE [form |-> "flat", off |-> 0, freq |-> 0, gain |-> 0]

\* C25: for a rhythm without a branch of its own (AFL, PAC, an unknown
\* value) the base ECG amplitude is the NSR base amplitude for the same beat
\* phase: the same shape in [0, 0.1), [0.1, 0.15) and [0.15, 0.3), and 0
\* outside [0, 0.3).
C25_DefaultIsNSR ==
    sample.rhythm \in {"AFL", "PAC", "SVT"}
        => /\ sample.input.base
                = generateArrhythmiaECG("NSR", sample.beatPhase, sample.draw)
           /\ sample.input.base = DocumentedNSR(sample.beatPhase)

C25_Witness ==
    /\ sample.rhythm = "PAC"
    /\ sample.beatPhase = 149
    /\ sample.input.base.gain = 10000

\* the documented artifact terms: 0.3 sin(2t), a uniform draw in +-0.2,
\* 0.2 sin(8t), 0.5 sin(0.1t)
Contribution(flag, a, r) ==
    CASE flag = "motion" -> [a EXCEPT !.motion = @ + 3]
      [] flag = "poorContact" -> [a EXCEPT !.offset = @ + (r - 500) * 40]
      [] flag = "muscleTremor" -> [a EXCEPT !.tremor = @ + 2]
      [] flag = "baselineDrift" -> [a EXCEPT !.drift = @ + 5]

\* the terms of the flags that are on, applied in the order `order`
RECURSIVE ApplyInOrder(_, _, _)
ApplyInOrder(order, a, r) ==
    IF order = <<>> THEN a
    ELSE ApplyInOrder(Tail(order),
                      IF artifacts[Head(order)]
                      THEN Contribution(Head(order), a, r) ELSE a,
                      r)

FlagOrders ==
    {o \in [1..4 -> {"motion", "poorContact", "muscleTremor", "baselineDrift"}] :
        \A i, j \in 1..4 : i # j => o[i] # o[j]}

\* C26: addArtifacts returns the input amplitude plus the terms of the flags
\* that are on and nothing else: the input itself when no flag is on, and
\* the same sum in whatever order the terms are applied.
C26_ArtifactsAdditive ==
    sample.rhythm # "none"
        => /\ \A o \in FlagOrders :
                 sample.output = ApplyInOrder(o, sample.input, sample.contact)
           /\ (\A f \in DOMAIN artifacts : ~artifacts[f])
                 => sample.output = sample.input

\* a sample taken with all four flags on
C26_Witness ==
    /\ sample.rhythm # "none"
    /\ \A f \in DOMAIN artifacts : artifacts[f]
    /\ sample.output.motion = 3
    /\ sample.output.tremor = 2
    /\ sample.output.drift = 5
    /\ sample.output.offset # sample.input.offset

\* C27: the silence-expiry callback sets alarmSilenced to false and changes
\* nothing else of the alarm state: it raises no alarm and requests no tone,
\* and after it alarmActive turns true, and a tone is requested, only by an
\* updateVital or a testAlarm.
C27_ExpiryOnlyUnsilences ==
    [][/\ lastOp' = "silenceExpiry"
            => /\ ~alarmSilenced'
               /\ UNCHANGED <<alarmActive, alarmMessage, overlays, vitals,
                              alarmEnabled, audioEnabled>>
               /\ ~alarmSound'
       /\ ((~alarmActive /\ alarmActive') \/ alarmSound')
            => lastOp' \in {"updateVital", "testAlarm"}]_vars

\* the silence is over, the heart rate is still in breach, no alarm is up
C27_Witness ==
    /\ lastOp = "silenceExpiry"
    /\ alarmEnabled
    /\ Outside("heartRate")
    /\ ~alarmActive
    /\ ~alarmSilenced
    /\ Pending("silence") = {}

OneTickEach ==
    /\ Cardinality(PendingLoop("animateECG")) = 1
    /\ Cardinality(PendingLoop("animatePleth")) = 1

\* C29: exactly one ECG tick and exactly one pleth tick are pending in every
\* state, and a tick that runs schedules its successor as an animation frame
\* when the monitor is not frozen and as a 100 ms timeout when it is.
C29_OneTickPerLoop ==
    [][/\ OneTickEach
       /\ OneTickEach'
       /\ \A k \in {"animateECG", "animatePleth"} :
             lastOp' = k
               => loops'[Len(loops')]
                    = IF isFrozen
                      THEN [kind |-> k, left |-> FrozenDelay, via |-> "timeout"]
                      ELSE [kind |-> k, left |-> FrameDelay, via |-> "frame"]]_vars

\* frozen and unfrozen again while the tick scheduled frozen is still pending
C29_Witness ==
    /\ lastOp = "toggleFreeze"
    /\ ~isFrozen
    /\ OneTickEach
    /\ \E i \in PendingLoop("animateECG") : loops[i].via = "timeout"
    /\ \E i \in PendingLoop("animatePleth") : loops[i].via = "timeout"

\* C30: without the audio capability audioEnabled starts false and no step
\* requests an alarm tone or a heartbeat tone, also after the user has
\* switched audioEnabled on; the evaluation of the vitals gives the same
\* alarmActive, message and overlay as with audio.
C30_NoAudioNoTone ==
    ~audioContext
        => /\ lastOp = "init" => ~audioEnabled
           /\ ~alarmSound
           /\ ~heartbeatSound
           /\ PendingLoop("startHeartbeatAudio") = {}
           /\ Evaluated
                => /\ alarmActive <=> Outside("heartRate")
                   /\ alarmActive => alarmMessage = ExpectedMessage
                   /\ overlays["hr-overlay"] <=> Outside("heartRate")

\* a breach raised the alarm, audio switched on by the user, no tone
C30_Witness ==
    /\ ~audioContext
    /\ audioEnabled
    /\ lastOp = "updateVital"
    /\ alarmActive
    /\ ~alarmSound

====
